---- MODULE Spec2Model ----
(***************************************************************************)
(* A model of sinzlab_tools/main.py: the click group `cli`, which resolves *)
(* the host list, and the subcommands `check_gpus` and `docker ps`, which  *)
(* fan a command out to every host, parse each host's captured output into *)
(* records and hand the per-host records to the table stage.               *)
(*                                                                         *)
(* Text is modelled as a sequence of one-character strings, so that the    *)
(* Python string operations (split, join, re.search) are computed          *)
(* character by character, as the interpreter computes them.               *)
(*                                                                         *)
(* run_group_command and construct_table live in sinzlab_tools/utils.py,   *)
(* which is not part of the available sources; they are modelled from the  *)
(* design document (Fan-Out Dispatcher, Table Reducer).                    *)
(***************************************************************************)
EXTENDS Naturals, Sequences, FiniteSets, TLC

VARIABLES
    pc,          \* position of the running subcommand
    cmd,         \* the subcommand invoked: "none", "check_gpus", "ps", "login", "pull"
    hosts,       \* ctx.obj['hosts']: the list of hosts dispatched to
    running,     \* hosts whose remote execution is still in flight
    results,     \* the dispatcher's result mapping, in insertion order
    remote,      \* what each remote host printed, line by line, value by value
    todo,        \* the items the subcommand's for loop still has to visit
    data,        \* the dict `data`, as a sequence of <<key, value>> in insertion order
    cur,         \* ps: the loop variable `connection`
    lines,       \* ps: the lines of the current host not yet processed
    containers,  \* ps: the list `containers` of the current host
    inspectLog,  \* ps: the inspect commands issued so far, <<connection, con_id>>
    table,       \* the table handed to click.echo
    exc,         \* the exception that escaped the subcommand, "" when none did
    phase,       \* the unit specifications: "idle", "ready" or "done"
    input,       \* the unit specifications: the input drawn
    output       \* the unit specifications: the value computed

vars == <<pc, cmd, hosts, running, results, remote, todo, data, cur, lines,
          containers, inspectLog, table, exc, phase, input, output>>

pipeVars == <<pc, cmd, hosts, running, results, remote, todo, data, cur, lines,
              containers, inspectLog, table, exc>>

unitVars == <<phase, input, output>>

----------------------------------------------------------------------------
(* Bounds of the model.                                                    *)

MaxHosts == 2
MaxLines == 2
MaxValues == 8
MaxNames == 3
MaxEnv == 3

----------------------------------------------------------------------------
(* Python's builtins, on text as sequences of characters.                  *)

Min(a, b) == IF a < b THEN a ELSE b

\* The characters the model uses, in code point order.
CodeOrder ==
    <<"\n", " ", ",", ".", "/", "0", "1", "2", "3", "4", "5", "6", "7", "8",
      "9", "=", "A", "B", "C", "D", "E", "H", "I", "L", "N", "P", "R", "S",
      "T", "U", "V", "[", "]", "_", "a", "b", "c", "d", "e", "g", "i", "l",
      "n", "o", "p", "u", "w", "x">>

Ord(c) == CHOOSE i \in 1..Len(CodeOrder) : CodeOrder[i] = c

RECURSIVE StrLess(_, _)
\* str.__lt__: lexicographic by code point; a proper prefix is smaller.
StrLess(a, b) ==
    IF b = <<>> THEN FALSE
    ELSE IF a = <<>> THEN TRUE
    ELSE IF a[1] = b[1] THEN StrLess(Tail(a), Tail(b))
    ELSE Ord(a[1]) < Ord(b[1])

\* str.find, 1-based: the first index at which sep occurs in s, 0 when none.
Find(s, sep) ==
    LET hits == {i \in 1..(Len(s) + 1) :
                    /\ i + Len(sep) - 1 <= Len(s)
                    /\ SubSeq(s, i, i + Len(sep) - 1) = sep}
    IN IF hits = {} THEN 0 ELSE CHOOSE i \in hits : \A j \in hits : i <= j

RECURSIVE Split(_, _)
\* s.split(sep) for a non-empty sep: never an empty list, '' gives [''].
Split(s, sep) ==
    LET i == Find(s, sep)
    IN IF i = 0 THEN <<s>>
       ELSE <<SubSeq(s, 1, i - 1)>> \o Split(SubSeq(s, i + Len(sep), Len(s)), sep)

\* str.isspace() of one character: tab, newline, vertical tab, form feed,
\* carriage return, the separators 0x1c-0x1f, space, 0x85, 0xa0 and 0x1680,
\* the last eight written as the characters themselves. The remaining
\* Unicode spaces (0x2000-0x200a, 0x2028, 0x2029, 0x202f, 0x205f, 0x3000)
\* cannot be written in a string of this language, so no text of the model
\* holds one.
IsSpace(c) ==
    c \in {" ", "\n", "\t", "\r", "\f",
           "", "", "", "", "", "", " ", " "}

RECURSIVE SplitWs(_, _)
\* s.split() with no separator: runs of whitespace separate, no empty names.
\* `word` is the name being read.
SplitWs(s, word) ==
    IF s = <<>> THEN (IF word = <<>> THEN <<>> ELSE <<word>>)
    ELSE IF IsSpace(s[1])
         THEN (IF word = <<>> THEN <<>> ELSE <<word>>) \o SplitWs(Tail(s), <<>>)
         ELSE SplitWs(Tail(s), Append(word, s[1]))

RECURSIVE Join(_, _)
\* sep.join(parts)
Join(parts, sep) ==
    IF parts = <<>> THEN <<>>
    ELSE IF Len(parts) = 1 THEN parts[1]
    ELSE parts[1] \o sep \o Join(Tail(parts), sep)

\* seq[:-1]
DropLast(s) == SubSeq(s, 1, Len(s) - 1)

\* A zip that pads the shorter side: every key is present, a key without a
\* value holding the empty string.
ZipPadded(keys, values) ==
    [k \in {keys[i] : i \in 1..Len(keys)} |->
        LET i == CHOOSE i \in 1..Len(keys) : keys[i] = k
        IN IF i <= Len(values) THEN values[i] ELSE <<>>]

\* {k: v for k, v in zip(keys, values)}: the shorter of the two decides.
ZipDict(keys, values) ==
    LET n == Min(Len(keys), Len(values))
    IN [k \in {keys[i] : i \in 1..n} |->
            values[CHOOSE i \in 1..n : keys[i] = k]]

CommaSpace == <<",", " ">>
Newline == <<"\n">>

----------------------------------------------------------------------------
(* dicts keyed by connection, in insertion order.                          *)

Keys(d) == {d[i][1] : i \in 1..Len(d)}

HasKey(d, k) == k \in Keys(d)

Get(d, k) == d[CHOOSE i \in 1..Len(d) : d[i][1] = k][2]

\* d[k] = v: a new key goes last, an old key keeps its place.
DictSet(d, k, v) ==
    IF HasKey(d, k)
    THEN [i \in 1..Len(d) |-> IF d[i][1] = k THEN <<k, v>> ELSE d[i]]
    ELSE Append(d, <<k, v>>)

RemoveAt(s, i) == SubSeq(s, 1, i - 1) \o SubSeq(s, i + 1, Len(s))

RECURSIVE SortedItems(_)
\* sorted(d.items()): by key; the keys of a dict are distinct.
SortedItems(d) ==
    IF d = <<>> THEN <<>>
    ELSE LET m == CHOOSE i \in 1..Len(d) :
                      \A j \in 1..Len(d) : ~StrLess(d[j][1], d[i][1])
         IN <<d[m]>> \o SortedItems(RemoveAt(d, m))

----------------------------------------------------------------------------
(* The record parsers of check_gpus and ps.                                *)

\* field_names of check_gpus.
GpuFieldNames == <<"INDEX", "UTIL (%)", "TEMP (°C)", "USED (MiB)", "TOTAL (MiB)">>

\* field_names of ps.
PsFieldNames ==
    <<"ID", "Image", "Command", "RunningFor", "Status", "Ports", "Names">>

\* The lines without the [:-1]: the empty line after the last newline stays.
GpuLinesKeepLast(stdout) ==
    LET ls == Split(stdout, Newline)
    IN [i \in 1..Len(ls) |-> Split(ls[i], CommaSpace)]

\* [l.split(', ') for l in result.stdout.split('\n')][:-1]
GpuLines(stdout) ==
    LET ls == Split(stdout, Newline)
    IN DropLast([i \in 1..Len(ls) |-> Split(ls[i], CommaSpace)])

\* {k: v for k, v in zip(field_names, line)}
GpuRecord(line) == ZipDict(GpuFieldNames, line)

\* The list `gpus` built for one host.
GpuRecords(stdout) ==
    LET result == GpuLines(stdout)
    IN [i \in 1..Len(result) |-> GpuRecord(result[i])]

\* result.stdout.split('\n')[:-1]
PsLines(stdout) == DropLast(Split(stdout, Newline))

\* values = line.split(', ')
PsValues(line) == Split(line, CommaSpace)

\* The container keyed by the last value of its line instead of the first.
ConIdLast(line) == PsValues(line)[Len(PsValues(line))]

\* con_id = values[0]
ConId(line) == PsValues(line)[1]

\* container = {k: v for k, v in zip(field_names, values)}
PsContainer(line) == ZipDict(PsFieldNames, PsValues(line))

KeyText ==
    <<"N", "V", "I", "D", "I", "A", "_", "V", "I", "S", "I", "B", "L", "E",
      "_", "D", "E", "V", "I", "C", "E", "S", "=">>

AllText == <<"a", "l", "l">>

\* \d of a str pattern without re.ASCII: every Unicode decimal digit
\* (category Nd). Besides 0-9, the digits of the scripts that can be written
\* in a string of this language are listed, ten per script, zero to nine;
\* the other decimal digits cannot be written, so no text of the model
\* holds one.
IsDigit(c) ==
    c \in {"0", "1", "2", "3", "4", "5", "6", "7", "8", "9",
           "۰", "۱", "۲", "۳", "۴", "۵", "۶", "۷", "۸", "۹",
           "߀", "߁", "߂", "߃", "߄", "߅", "߆", "߇", "߈", "߉",
           "০", "১", "২", "৩", "৪", "৫", "৬", "৭", "৮", "৯",
           "૦", "૧", "૨", "૩", "૪", "૫", "૬", "૭", "૮", "૯",
           "௦", "௧", "௨", "௩", "௪", "௫", "௬", "௭", "௮", "௯",
           "೦", "೧", "೨", "೩", "೪", "೫", "೬", "೭", "೮", "೯",
           "෦", "෧", "෨", "෩", "෪", "෫", "෬", "෭", "෮", "෯",
           "໐", "໑", "໒", "໓", "໔", "໕", "໖", "໗", "໘", "໙",
           "႐", "႑", "႒", "႓", "႔", "႕", "႖", "႗", "႘", "႙",
           "០", "១", "២", "៣", "៤", "៥", "៦", "៧", "៨", "៩",
           "᧐", "᧑", "᧒", "᧓", "᧔", "᧕", "᧖", "᧗", "᧘", "᧙",
           "᪀", "᪁", "᪂", "᪃", "᪄", "᪅", "᪆", "᪇", "᪈", "᪉",
           "᪐", "᪑", "᪒", "᪓", "᪔", "᪕", "᪖", "᪗", "᪘", "᪙",
           "᮰", "᮱", "᮲", "᮳", "᮴", "᮵", "᮶", "᮷", "᮸", "᮹",
           "꣐", "꣑", "꣒", "꣓", "꣔", "꣕", "꣖", "꣗", "꣘", "꣙",
           "꧐", "꧑", "꧒", "꧓", "꧔", "꧕", "꧖", "꧗", "꧘", "꧙",
           "꧰", "꧱", "꧲", "꧳", "꧴", "꧵", "꧶", "꧷", "꧸", "꧹",
           "꯰", "꯱", "꯲", "꯳", "꯴", "꯵", "꯶", "꯷", "꯸", "꯹"}

\* The length of the longest run of digits of s that starts at index i.
DigitRun(s, i) ==
    LET ends == {j \in i..(Len(s) + 1) :
                    /\ \A k \in i..(j - 1) : IsDigit(s[k])
                    /\ (j = Len(s) + 1 \/ ~IsDigit(s[j]))}
    IN (CHOOSE j \in ends : TRUE) - i

\* Whether r'NVIDIA_VISIBLE_DEVICES=(all|\d+)' matches s at index i.
MatchesAt(s, i) ==
    LET v == i + Len(KeyText)
    IN /\ i + Len(KeyText) - 1 <= Len(s)
       /\ SubSeq(s, i, v - 1) = KeyText
       /\ \/ (v + 2 <= Len(s) /\ SubSeq(s, v, v + 2) = AllText)
          \/ DigitRun(s, v) > 0

\* The group of a pattern (all|\d): one digit only.
GroupAtOneDigit(s, i) ==
    LET v == i + Len(KeyText)
    IN IF v + 2 <= Len(s) /\ SubSeq(s, v, v + 2) = AllText
       THEN AllText
       ELSE SubSeq(s, v, v)

\* match.group(1) of the match at index i: 'all' is tried before \d+, and
\* \d+ is greedy.
GroupAt(s, i) ==
    LET v == i + Len(KeyText)
    IN IF v + 2 <= Len(s) /\ SubSeq(s, v, v + 2) = AllText
       THEN AllText
       ELSE SubSeq(s, v, v + DigitRun(s, v) - 1)

\* match = re.search(...); match.group(1) if match else ''
GpuField(stdout) ==
    LET hits == {i \in 1..Len(stdout) : MatchesAt(stdout, i)}
    IN IF hits = {} THEN <<>>
       ELSE GroupAt(stdout, CHOOSE i \in hits : \A j \in hits : i <= j)

\* container['GPU'] = ...
WithGpu(container, gpu) ==
    [k \in DOMAIN container \cup {"GPU"} |->
        IF k = "GPU" THEN gpu ELSE container[k]]

\* containers.insert(0, container)
PrependContainer(cs, container) == <<container>> \o cs

\* containers.append(container)
AppendContainer(cs, container) == Append(cs, container)

----------------------------------------------------------------------------
(* utils.construct_table, from the design document's Table Reducer: for    *)
(* each host in sorted order its records in their order, one row each, a   *)
(* field the record lacks giving an empty cell.  A host with no records    *)
(* gives no row.  Each row keeps the host it belongs to.                   *)

RowOf(h, fields, rec) ==
    [host |-> h,
     cells |-> [j \in 1..Len(fields) |->
                   IF fields[j] \in DOMAIN rec THEN rec[fields[j]] ELSE <<>>]]

RECURSIVE RowsOf(_, _)
RowsOf(fields, items) ==
    IF items = <<>> THEN <<>>
    ELSE LET h == items[1][1]
             recs == items[1][2]
         IN [i \in 1..Len(recs) |-> RowOf(h, fields, recs[i])]
            \o RowsOf(fields, Tail(items))

construct_table(fields, hostRecords) ==
    [headers |-> fields, rows |-> RowsOf(fields, SortedItems(hostRecords))]

NoTable == [headers |-> <<>>, rows |-> <<>>]

----------------------------------------------------------------------------
(* The remote side: what a host prints for the command it is sent.         *)

\* nvidia-smi --format=csv,noheader,nounits and docker ps --format: one line
\* per row, the values separated by ', ', every line ended by a newline.
FormatOutput(ls) ==
    LET RECURSIVE F(_)
        F(rest) == IF rest = <<>> THEN <<>>
                   ELSE Join(rest[1], CommaSpace) \o Newline \o F(Tail(rest))
    IN F(ls)

\* Rows a host may print for nvidia-smi: no GPU, one GPU, two GPUs of which
\* the second row is short.
GpuSamples ==
    { <<>>,
      << <<<<"0">>, <<"4", "5">>, <<"6">>, <<"2">>, <<"8">>>> >>,
      << <<<<"0">>, <<"4", "5">>, <<"6">>, <<"2">>, <<"8">>>>,
         <<<<"1">>, <<"7">>>> >> }

\* Rows a host may print for docker ps: no container, one container, two
\* containers of which the second row is short.
PsSamples ==
    { <<>>,
      << <<<<"c", "1">>, <<"n", "g">>, <<"n", "g", " ", "x">>, <<"2", "d">>,
           <<"U", "p">>, <<"8", "0">>, <<"w">>>> >>,
      << <<<<"c", "1">>, <<"n", "g">>, <<"n", "g", " ", "x">>, <<"2", "d">>,
           <<"U", "p">>, <<"8", "0">>, <<"w">>>>,
         <<<<"c", "2">>, <<"b", "b">>, <<"e">>>> >> }

\* Rows a host may print for docker login and docker pull: nothing, or one
\* line of progress.
OtherSamples == { <<>>, << <<<<"o", "k">>>> >> }

Samples(c) ==
    IF c = "check_gpus" THEN GpuSamples
    ELSE IF c = "ps" THEN PsSamples
    ELSE OtherSamples

\* docker inspect --format "{{.Config.Env}}": the environment in brackets.
FormatEnv(entries) == <<"[">> \o Join(entries, <<" ">>) \o <<"]">> \o Newline

PathEntry == <<"P", "A", "T", "H", "=", "/", "b", "i", "n">>

\* What docker inspect may print in the pipeline: no GPU variable, all, one
\* device.
InspectSamples ==
    { FormatEnv(<<PathEntry>>),
      FormatEnv(<<PathEntry, KeyText \o AllText>>),
      FormatEnv(<<KeyText \o <<"1">>, PathEntry>>) }

Success(text) == [ok |-> TRUE, stdout |-> text]

\* The Failure variant of CommandResult: a description, no captured output.
Failure == [ok |-> FALSE, error |-> "failed"]

HasStdout(result) == "stdout" \in DOMAIN result

\* The outcomes of one remote execution of the subcommand's command.
Outcomes(c) ==
    {[result |-> Failure, printed |-> <<>>]}
    \cup {[result |-> Success(FormatOutput(s)), printed |-> s] : s \in Samples(c)}

----------------------------------------------------------------------------
(* utils.run_group_command, from the design document's Fan-Out Dispatcher: *)
(* one remote execution per host, concurrently; a failure is captured as   *)
(* that host's entry; the call returns when every host has an entry.       *)

Range(s) == {s[i] : i \in 1..Len(s)}

\* The hosts the dispatcher starts an execution on.
Targets(hs) == Range(hs)

\* A dispatcher that keeps the successes only.
CollectSuccesses(rs, h, result) ==
    IF result.ok THEN DictSet(rs, h, result) ELSE rs

\* The dispatcher records one host's outcome.
Collect(rs, h, result) == DictSet(rs, h, result)

\* A race instead of a join: the first host to finish ends the wait.
AnyJoined == results # <<>>

\* The join: no execution is in flight any more.
AllJoined == running = {}

\* One host's remote execution ends, in success or in failure.
Execute(h) ==
    /\ h \in running
    /\ \E o \in Outcomes(cmd) :
          /\ results' = Collect(results, h, o.result)
          /\ remote' = DictSet(remote, h, o.printed)
    /\ running' = running \ {h}
    /\ UNCHANGED <<pc, cmd, hosts, todo, data, cur, lines, containers,
                   inspectLog, table, exc, phase, input, output>>

\* run_group_command returns the mapping to the subcommand.
RunGroupReturn ==
    /\ pc = "dispatching"
    /\ AllJoined
    /\ pc' = "returned"
    /\ UNCHANGED <<cmd, hosts, running, results, remote, todo, data, cur, lines,
                   containers, inspectLog, table, exc, phase, input, output>>

----------------------------------------------------------------------------
(* check_gpus                                                              *)

\* main.py 35-53: the command is built and dispatched to ctx.obj['hosts'].
CheckGpusCall ==
    /\ pc = "start"
    /\ cmd' = "check_gpus"
    /\ running' = Targets(hosts)
    /\ pc' = "dispatching"
    /\ UNCHANGED <<hosts, results, remote, todo, data, cur, lines, containers,
                   inspectLog, table, exc, phase, input, output>>

\* main.py 55: for connection, result in sorted(results.items())
CheckGpusItems(rs) == SortedItems(rs)

CheckGpusSort ==
    /\ pc = "returned"
    /\ cmd = "check_gpus"
    /\ todo' = CheckGpusItems(results)
    /\ pc' = "loop"
    /\ UNCHANGED <<cmd, hosts, running, results, remote, data, cur, lines,
                   containers, inspectLog, table, exc, phase, input, output>>

\* main.py 56-60: one iteration. result.stdout of an entry that holds no
\* captured output raises AttributeError, which nothing catches.
CheckGpusParse ==
    /\ pc = "loop"
    /\ cmd = "check_gpus"
    /\ todo # <<>>
    /\ LET connection == Head(todo)[1]
           result == Head(todo)[2]
       IN IF HasStdout(result)
          THEN /\ data' = DictSet(data, connection, GpuRecords(result.stdout))
               /\ todo' = Tail(todo)
               /\ UNCHANGED <<pc, exc>>
          ELSE /\ pc' = "raised"
               /\ exc' = "AttributeError"
               /\ UNCHANGED <<data, todo>>
    /\ UNCHANGED <<cmd, hosts, running, results, remote, cur, lines, containers,
                   inspectLog, table, phase, input, output>>

\* main.py 61: click.echo(construct_table(field_names, data))
CheckGpusEcho ==
    /\ pc = "loop"
    /\ cmd = "check_gpus"
    /\ todo = <<>>
    /\ table' = construct_table(GpuFieldNames, data)
    /\ pc' = "rendered"
    /\ UNCHANGED <<cmd, hosts, running, results, remote, todo, data, cur, lines,
                   containers, inspectLog, exc, phase, input, output>>

----------------------------------------------------------------------------
(* docker ps                                                               *)

\* main.py 111-132: the command is built and dispatched to ctx.obj['hosts'].
PsCall ==
    /\ pc = "start"
    /\ cmd' = "ps"
    /\ running' = Targets(hosts)
    /\ pc' = "dispatching"
    /\ UNCHANGED <<hosts, results, remote, todo, data, cur, lines, containers,
                   inspectLog, table, exc, phase, input, output>>

\* main.py 135: for connection, result in results.items()
PsItems ==
    /\ pc = "returned"
    /\ cmd = "ps"
    /\ todo' = results
    /\ pc' = "loop"
    /\ UNCHANGED <<cmd, hosts, running, results, remote, data, cur, lines,
                   containers, inspectLog, table, exc, phase, input, output>>

\* main.py 135-138, 151-153: the loop binds connection to the next host,
\* then reads its lines; a host without lines gets a fresh empty list at
\* once.
PsHost ==
    /\ pc = "loop"
    /\ cmd = "ps"
    /\ todo # <<>>
    /\ LET connection == Head(todo)[1]
           result == Head(todo)[2]
       IN /\ cur' = connection
          /\ IF ~HasStdout(result)
             THEN /\ pc' = "raised"
                  /\ exc' = "AttributeError"
                  /\ UNCHANGED <<data, todo, lines, containers>>
             ELSE IF PsLines(result.stdout) # <<>>
             THEN /\ lines' = PsLines(result.stdout)
                  /\ containers' = <<>>
                  /\ pc' = "inner"
                  /\ UNCHANGED <<data, todo, exc>>
             ELSE /\ lines' = PsLines(result.stdout)
                  /\ containers' = <<>>
                  /\ data' = DictSet(data, connection, <<>>)
                  /\ todo' = Tail(todo)
                  /\ UNCHANGED <<pc, exc>>
    /\ UNCHANGED <<cmd, hosts, running, results, remote, inspectLog, table,
                   phase, input, output>>

\* The outcomes of connection.run('docker inspect ...', hide=True): the
\* captured output, or the exception fabric raises for a failed command.
InspectOutcomes ==
    {[ok |-> FALSE, stdout |-> <<>>]}
    \cup {[ok |-> TRUE, stdout |-> t] : t \in InspectSamples}

\* main.py 139-150, and 153 after the last line: one line of the current
\* host. The inspect command runs on the host's own connection; its failure
\* raises out of ps.
PsInspect ==
    /\ pc = "inner"
    /\ lines # <<>>
    /\ inspectLog' = Append(inspectLog, <<cur, ConId(Head(lines))>>)
    /\ \E o \in InspectOutcomes :
          IF ~o.ok
          THEN /\ pc' = "raised"
               /\ exc' = "UnexpectedExit"
               /\ UNCHANGED <<data, todo, lines, containers>>
          ELSE LET container == WithGpu(PsContainer(Head(lines)), GpuField(o.stdout))
                   cs == AppendContainer(containers, container)
               IN /\ containers' = cs
                  /\ lines' = Tail(lines)
                  /\ exc' = exc
                  /\ IF Tail(lines) = <<>>
                     THEN /\ data' = DictSet(data, cur, cs)
                          /\ todo' = Tail(todo)
                          /\ pc' = "loop"
                     ELSE UNCHANGED <<data, todo, pc>>
    /\ UNCHANGED <<cmd, hosts, running, results, remote, cur, table, phase,
                   input, output>>

\* main.py 155: click.echo(construct_table(field_names + ['GPU'], data))
PsEcho ==
    /\ pc = "loop"
    /\ cmd = "ps"
    /\ todo = <<>>
    /\ table' = construct_table(PsFieldNames \o <<"GPU">>, data)
    /\ pc' = "rendered"
    /\ UNCHANGED <<cmd, hosts, running, results, remote, todo, data, cur, lines,
                   containers, inspectLog, exc, phase, input, output>>

----------------------------------------------------------------------------
(* docker login and docker pull: the command is dispatched to every host   *)
(* and the mapping that comes back is dropped; nothing is parsed or        *)
(* rendered.                                                               *)

\* main.py 177-178: the command is built and dispatched to ctx.obj['hosts'].
LoginCall ==
    /\ pc = "start"
    /\ cmd' = "login"
    /\ running' = Targets(hosts)
    /\ pc' = "dispatching"
    /\ UNCHANGED <<hosts, results, remote, todo, data, cur, lines, containers,
                   inspectLog, table, exc, phase, input, output>>

\* main.py 178: login ends when run_group_command has returned.
LoginDone ==
    /\ pc = "returned"
    /\ cmd = "login"
    /\ pc' = "done"
    /\ UNCHANGED <<cmd, hosts, running, results, remote, todo, data, cur, lines,
                   containers, inspectLog, table, exc, phase, input, output>>

\* main.py 189-190: the command is built and dispatched to ctx.obj['hosts'].
PullCall ==
    /\ pc = "start"
    /\ cmd' = "pull"
    /\ running' = Targets(hosts)
    /\ pc' = "dispatching"
    /\ UNCHANGED <<hosts, results, remote, todo, data, cur, lines, containers,
                   inspectLog, table, exc, phase, input, output>>

\* main.py 190: pull ends when run_group_command has returned.
PullDone ==
    /\ pc = "returned"
    /\ cmd = "pull"
    /\ pc' = "done"
    /\ UNCHANGED <<cmd, hosts, running, results, remote, todo, data, cur, lines,
                   containers, inspectLog, table, exc, phase, input, output>>

----------------------------------------------------------------------------
(* One invocation of a subcommand on a list of distinct hosts.             *)

HostA == <<"a", ".", "x">>
HostAB == <<"a", "b", ".", "x">>
HostB == <<"b", ".", "x">>

HostPool == {HostA, HostAB, HostB}

\* The non-empty lists of distinct hosts, at most MaxHosts long.
HostLists ==
    UNION {{hs \in [1..n -> HostPool] : \A i, j \in 1..n : hs[i] = hs[j] => i = j}
           : n \in 1..Min(MaxHosts, Cardinality(HostPool))}

Init ==
    /\ pc = "start"
    /\ cmd = "none"
    /\ hosts \in HostLists
    /\ running = {}
    /\ results = <<>>
    /\ remote = <<>>
    /\ todo = <<>>
    /\ data = <<>>
    /\ cur = <<>>
    /\ lines = <<>>
    /\ containers = <<>>
    /\ inspectLog = <<>>
    /\ table = NoTable
    /\ exc = ""
    /\ phase = "idle"
    /\ input = <<>>
    /\ output = <<>>

Next ==
    \/ CheckGpusCall
    \/ PsCall
    \/ \E h \in Range(hosts) : Execute(h)
    \/ RunGroupReturn
    \/ CheckGpusSort
    \/ CheckGpusParse
    \/ CheckGpusEcho
    \/ PsItems
    \/ PsHost
    \/ PsInspect
    \/ PsEcho
    \/ LoginCall
    \/ LoginDone
    \/ PullCall
    \/ PullDone

Spec == Init /\ [][Next]_vars

----------------------------------------------------------------------------
(* Properties of one invocation (specification Spec).                      *)

Dispatched == Range(hosts)

Succeeded == {results[i][1] : i \in {k \in 1..Len(results) : results[k][2].ok}}

Failed == {results[i][1] : i \in {k \in 1..Len(results) : ~results[k][2].ok}}

\* The rows host h printed, as the remote side produced them.
Printed(h) == Get(remote, h)

\* The declared fields of the subcommand invoked.
DeclaredFields == IF cmd = "check_gpus" THEN GpuFieldNames ELSE PsFieldNames

AfterDispatch == pc \notin {"start", "dispatching"}

Terminated == pc \in {"rendered", "raised"}

\* C1: the mapping one dispatch returns has exactly one entry per input host,
\* however many hosts fail, and each entry is either a success with captured
\* output or a failure.
C1_DispatchComplete ==
    AfterDispatch =>
        /\ Len(results) = Len(hosts)
        /\ Keys(results) = Dispatched
        /\ \A i, j \in 1..Len(results) : results[i][1] = results[j][1] => i = j
        /\ \A i \in 1..Len(results) :
              \/ results[i][2].ok /\ HasStdout(results[i][2])
              \/ ~results[i][2].ok /\ "error" \in DOMAIN results[i][2]

\* A dispatch to two hosts returned with one failure and one success.
C1_Witness ==
    /\ pc = "returned"
    /\ Len(hosts) >= 2
    /\ Failed # {}
    /\ Succeeded # {}

\* C2: a failed remote execution, the inspect of a container row included,
\* never raises out of check_gpus or ps, and the records of every host that
\* succeeded reach the table stage.
C2_FailureIsolated ==
    /\ pc # "raised"
    /\ pc = "rendered" => \A h \in Succeeded : HasKey(data, h)

\* C3: when the invocation ends the table has been rendered from a `data`
\* with exactly one key per dispatched host, the hosts that failed or printed
\* nothing mapping to an empty record list and giving no row.
C3_EveryHostKeyed ==
    Terminated =>
        /\ pc = "rendered"
        /\ Len(data) = Len(hosts)
        /\ Keys(data) = Dispatched
        /\ \A h \in Dispatched :
              (h \in Failed \/ Printed(h) = <<>>) =>
                  /\ Get(data, h) = <<>>
                  /\ \A i \in 1..Len(table.rows) : table.rows[i].host # h

\* C4: nothing is parsed, no inspect is issued and no table is rendered
\* while a remote execution of the dispatch is still in flight.
C4_BarrierJoin ==
    (\/ AfterDispatch
     \/ todo # <<>>
     \/ data # <<>>
     \/ inspectLog # <<>>
     \/ table # NoTable)
    => /\ running = {}
       /\ Keys(results) = Dispatched

\* ps is inspecting the rows of a host after a dispatch to two hosts.
C4_Witness ==
    /\ pc = "inner"
    /\ inspectLog # <<>>
    /\ Len(hosts) >= 2
    /\ data # <<>>

\* C5: the rows of the rendered table are ordered by host, and within one
\* host are the rows that host printed, in the order it printed them, each
\* declared field holding the value at its position; so the table does not
\* depend on the order in which the hosts completed.
C5_RowsOrdered ==
    pc = "rendered" =>
        /\ \A i, j \in 1..Len(table.rows) :
              i < j => ~StrLess(table.rows[j].host, table.rows[i].host)
        /\ \A i \in 1..Len(table.rows) : table.rows[i].host \in Dispatched
        /\ \A h \in Dispatched :
              LET Mine(r) == r.host = h
                  mine == SelectSeq(table.rows, Mine)
              IN /\ Len(mine) = Len(Printed(h))
                 /\ \A k \in 1..Len(mine) : \A j \in 1..Len(DeclaredFields) :
                       mine[k].cells[j] =
                          IF j <= Len(Printed(h)[k]) THEN Printed(h)[k][j] ELSE <<>>

\* A table of three rows or more was rendered after the hosts completed in
\* the reverse of their sorted order.
C5_Witness ==
    /\ pc = "rendered"
    /\ Len(results) >= 2
    /\ StrLess(results[2][1], results[1][1])
    /\ Len(table.rows) >= 3

RECURSIVE ExpectedInspects(_)
\* The inspect commands ps owes for the given items: per host, in the order
\* of the items, one per printed row, keyed by the row's first value.
ExpectedInspects(items) ==
    IF items = <<>> THEN <<>>
    ELSE LET h == items[1][1]
         IN [k \in 1..Len(Printed(h)) |-> <<h, Printed(h)[k][1]>>]
            \o ExpectedInspects(Tail(items))

IsPrefix(s, t) == Len(s) <= Len(t) /\ SubSeq(t, 1, Len(s)) = s

\* C10: ps issues its inspect commands one after the other, one per
\* container row, on the row's own host, keyed by the row's first value, in
\* row order and none for a host without rows; a host's record list has the
\* length and the order of its rows.
C10_InspectSequential ==
    (cmd = "ps" /\ AfterDispatch) =>
        /\ IsPrefix(inspectLog, ExpectedInspects(results))
        /\ pc = "rendered" => inspectLog = ExpectedInspects(results)
        /\ \A i \in 1..Len(data) :
              LET h == data[i][1]
                  recs == data[i][2]
                  Mine(e) == e[1] = h
              IN /\ Len(recs) = Len(Printed(h))
                 /\ Len(SelectSeq(inspectLog, Mine)) = Len(Printed(h))
                 /\ \A k \in 1..Len(recs) : recs[k]["ID"] = Printed(h)[k][1]

\* ps rendered after inspecting two rows of one host and none of another
\* host, which printed nothing.
C10_Witness ==
    /\ pc = "rendered"
    /\ cmd = "ps"
    /\ Len(inspectLog) >= 2
    /\ \E h \in Dispatched : Printed(h) = <<>>

----------------------------------------------------------------------------
(* The parsers on their own (specification SpecParse): the rows a host     *)
(* printed are drawn, formatted as the remote command formats them, and    *)
(* parsed by the subcommand's code.                                        *)

PipeIdle ==
    /\ pc = "idle"
    /\ cmd = "none"
    /\ hosts = <<>>
    /\ running = {}
    /\ results = <<>>
    /\ remote = <<>>
    /\ todo = <<>>
    /\ data = <<>>
    /\ cur = <<>>
    /\ lines = <<>>
    /\ containers = <<>>
    /\ inspectLog = <<>>
    /\ table = NoTable
    /\ exc = ""

\* Values a row may hold: none of them contains the separator ', ' or a
\* newline.
ValuePool ==
    <<<<"0">>, <<"4", "5">>, <<>>, <<"n", "g", " ", "x">>, <<"a", ",", "b">>,
      <<" ", "8">>>>

\* Row i of a host: `count` values, taken from the pool in turn from `shift`.
RowOfValues(i, count, shift) ==
    [j \in 1..count |-> ValuePool[((i + j + shift) % Len(ValuePool)) + 1]]

\* The outputs drawn: up to MaxLines rows, each of 1 to MaxValues values.
ParseInputs ==
    UNION {{[j \in 1..n |-> RowOfValues(j, counts[j], shift)] :
               counts \in [1..n -> 1..MaxValues], shift \in 0..(Len(ValuePool) - 1)}
           : n \in 0..MaxLines}

InitParse ==
    /\ PipeIdle
    /\ phase = "ready"
    /\ \E family \in {"gpu", "ps"}, rows \in ParseInputs :
          input = [family |-> family, rows |-> rows, stdout |-> FormatOutput(rows)]
    /\ output = <<>>

\* main.py 56-60: the records of one host of check_gpus.
ParseGpuOutput ==
    /\ phase = "ready"
    /\ input.family = "gpu"
    /\ output' = GpuRecords(input.stdout)
    /\ phase' = "done"
    /\ UNCHANGED <<input, pipeVars>>

\* main.py 136-142: the containers of one host of ps, before the inspect.
ParsePsOutput ==
    /\ phase = "ready"
    /\ input.family = "ps"
    /\ output' = [i \in 1..Len(PsLines(input.stdout)) |->
                     PsContainer(PsLines(input.stdout)[i])]
    /\ phase' = "done"
    /\ UNCHANGED <<input, pipeVars>>

NextParse == ParseGpuOutput \/ ParsePsOutput

SpecParse == InitParse /\ [][NextParse]_vars

FamilyFields == IF input.family = "gpu" THEN GpuFieldNames ELSE PsFieldNames

\* Record rec holds exactly the first Min(m, n) of the n declared fields,
\* each with the value at its position in row.
Positional(rec, fields, row) ==
    /\ DOMAIN rec = {fields[j] : j \in 1..Min(Len(fields), Len(row))}
    /\ \A j \in 1..Min(Len(fields), Len(row)) : rec[fields[j]] = row[j]

\* C6: of an output of k rows, each ended by a newline, check_gpus drops
\* only the empty line after the last newline: it builds k records, in row
\* order, record i mapping the declared fields by position to the values of
\* row i; an empty output gives no record.
C6_GpuParseKeepsRows ==
    (phase = "done" /\ input.family = "gpu") =>
        /\ Len(output) = Len(input.rows)
        /\ input.stdout = <<>> => output = <<>>
        /\ \A i \in 1..Len(output) :
              Positional(output[i], GpuFieldNames, input.rows[i])

\* Two rows of five values each were parsed by check_gpus.
C6_Witness ==
    /\ phase = "done"
    /\ input.family = "gpu"
    /\ Len(input.rows) = 2
    /\ \A i \in 1..2 : Len(input.rows[i]) = Len(GpuFieldNames)
    /\ Len(output) = 2

\* C8: in both parsers a row of m values, m smaller than the number of
\* declared fields, gives a record of exactly the first m declared fields,
\* mapped by position, the other declared fields being absent; the other
\* rows of the host are parsed as if the short row were a full one.
C8_ShortLineLenient ==
    (phase = "done"
       /\ \E i \in 1..Len(input.rows) : Len(input.rows[i]) < Len(FamilyFields))
    => /\ Len(output) = Len(input.rows)
       /\ \A i \in 1..Len(input.rows) :
             /\ Positional(output[i], FamilyFields, input.rows[i])
             /\ Len(input.rows[i]) < Len(FamilyFields) =>
                   /\ Cardinality(DOMAIN output[i]) = Len(input.rows[i])
                   /\ \A j \in (Len(input.rows[i]) + 1)..Len(FamilyFields) :
                         FamilyFields[j] \notin DOMAIN output[i]

\* ps parsed a short row of three values followed by a full row.
C8_Witness ==
    /\ phase = "done"
    /\ input.family = "ps"
    /\ Len(input.rows) = 2
    /\ Len(input.rows[1]) = 3
    /\ Len(input.rows[2]) = Len(PsFieldNames)
    /\ Cardinality(DOMAIN output[1]) = 3
    /\ Cardinality(DOMAIN output[2]) = Len(PsFieldNames)

----------------------------------------------------------------------------
(* The derived GPU field on its own (specification SpecGpu): a container's *)
(* environment is drawn, printed as docker inspect prints it, and searched *)
(* by the code of ps.                                                      *)

NvidiaVisibleDevices == SubSeq(KeyText, 1, Len(KeyText) - 1)

NvidiaDriver ==
    <<"N", "V", "I", "D", "I", "A", "_", "D", "R", "I", "V", "E", "R">>

CudaVisibleDevices ==
    <<"C", "U", "D", "A", "_", "V", "I", "S", "I", "B", "L", "E", "_", "D",
      "E", "V", "I", "C", "E", "S">>

\* U+06F3, a decimal digit outside 0-9.
ExtendedArabicThree == "۳"

\* Environment entries a container may have.
EnvPool ==
    { [name |-> <<"P", "A", "T", "H">>, value |-> <<"/", "b", "i", "n">>],
      [name |-> NvidiaDriver, value |-> AllText],
      [name |-> CudaVisibleDevices, value |-> <<"1">>],
      [name |-> NvidiaVisibleDevices, value |-> AllText],
      [name |-> NvidiaVisibleDevices, value |-> <<"0">>],
      [name |-> NvidiaVisibleDevices, value |-> <<"1", "2">>],
      [name |-> NvidiaVisibleDevices, value |-> <<"n", "o", "n", "e">>],
      [name |-> NvidiaVisibleDevices, value |-> <<>>],
      [name |-> NvidiaVisibleDevices, value |-> <<"0", ",", "1">>],
      [name |-> NvidiaVisibleDevices, value |-> <<"1", ExtendedArabicThree>>] }

\* The environments drawn: at most MaxEnv entries, the names distinct.
EnvInputs ==
    UNION {{e \in [1..n -> EnvPool] :
               \A i, j \in 1..n : e[i].name = e[j].name => i = j}
           : n \in 0..MaxEnv}

EntryText(e) == e.name \o <<"=">> \o e.value

InitGpu ==
    /\ PipeIdle
    /\ phase = "ready"
    /\ \E env \in EnvInputs :
          input = [env |-> env,
                   stdout |-> FormatEnv([i \in 1..Len(env) |-> EntryText(env[i])])]
    /\ output = <<>>

\* main.py 142-149: the record of a container row, the GPU field derived
\* from the captured output of its inspect.
DeriveGpu ==
    /\ phase = "ready"
    /\ output' = WithGpu(PsContainer(<<"c", "1", ",", " ", "n", "g">>),
                         GpuField(input.stdout))
    /\ phase' = "done"
    /\ UNCHANGED <<input, pipeVars>>

NextGpu == DeriveGpu

SpecGpu == InitGpu /\ [][NextGpu]_vars

\* The values NVIDIA_VISIBLE_DEVICES has in the environment drawn.
DeviceValues ==
    {input.env[i].value :
        i \in {k \in 1..Len(input.env) : input.env[k].name = NvidiaVisibleDevices}}

IsInteger(v) == v # <<>> /\ \A k \in 1..Len(v) : IsDigit(v[k])

StartsWith(v, prefix) ==
    Len(prefix) <= Len(v) /\ SubSeq(v, 1, Len(prefix)) = prefix

RECURSIVE DigitPrefix(_)
\* The digits v begins with.
DigitPrefix(v) ==
    IF v = <<>> \/ ~IsDigit(v[1]) THEN <<>> ELSE <<v[1]>> \o DigitPrefix(Tail(v))

\* C7: every container record has the GPU field. It is the value of
\* NVIDIA_VISIBLE_DEVICES in the inspect output when that value is 'all' or
\* a non-negative integer, and the empty string when the pattern matches
\* nowhere: the variable is not set, or its value begins neither with 'all'
\* nor with a digit. (A value the pattern matches only the beginning of,
\* such as '0,1', gives that beginning.)
C7_GpuFieldDerived ==
    phase = "done" =>
        /\ "GPU" \in DOMAIN output
        /\ DeviceValues = {} => output["GPU"] = <<>>
        /\ \A v \in DeviceValues :
              /\ (v = AllText \/ IsInteger(v)) => output["GPU"] = v
              /\ (~StartsWith(v, AllText) /\ DigitPrefix(v) = <<>>)
                    => output["GPU"] = <<>>
              /\ (~StartsWith(v, AllText) /\ DigitPrefix(v) # <<>>)
                    => output["GPU"] = DigitPrefix(v)
        /\ \A k \in DOMAIN output : k # "GPU" => k \in {"ID", "Image"}

\* The GPU field was derived from an environment that sets the variable to
\* the integer 12 after another variable.
C7_Witness ==
    /\ phase = "done"
    /\ Len(input.env) >= 2
    /\ input.env[1].name # NvidiaVisibleDevices
    /\ DeviceValues = {<<"1", "2">>}
    /\ output["GPU"] = <<"1", "2">>

----------------------------------------------------------------------------
(* The host list (specification SpecCli): the --hosts option and the       *)
(* configuration are drawn, written as the user and config.ini write them, *)
(* and resolved by cli.                                                    *)

\* Names the --hosts option may list; a name may be empty.
OptionNamePool == { <<"a">>, <<"g", "b">>, <<>> }

\* Names config.ini may list; none is empty or holds whitespace.
DefaultNamePool == { <<"a">>, <<"g", "b">> }

\* Whitespace config.ini may put between two names.
VerticalTab == ""

NoBreakSpace == " "

Gaps ==
    { <<" ">>, <<" ", " ">>, <<"\n", " ">>, <<VerticalTab>>,
      <<"\t", NoBreakSpace>> }

CommonDomain == <<"l", "a", "b", ".", "d", "e">>

NameLists(pool) == UNION {[1..n -> pool] : n \in 1..MaxNames}

InitCli ==
    /\ PipeIdle
    /\ phase = "ready"
    /\ \E given \in BOOLEAN, dflt \in NameLists(DefaultNamePool), gap \in Gaps :
          \E names \in (IF given THEN NameLists(OptionNamePool) ELSE {<<>>}) :
             input = [given |-> given,
                      names |-> names,
                      option |-> Join(names, <<",">>),
                      defaultNames |-> dflt,
                      configHosts |-> Join(dflt, gap),
                      common |-> CommonDomain]
    /\ output = <<>>

\* main.py 21: `if hosts:` is false for an option not given (None) and for
\* an option given as the empty string.
OptionTruthy(given, option) == given /\ option # <<>>

\* main.py 22: hosts.split(',')
OptionNames(option) == Split(option, <<",">>)

\* split(' ') instead of split(): every single space separates.
DefaultNamesBySpace(configHosts) == Split(configHosts, <<" ">>)

\* main.py 24: config['DEFAULT']['hosts'].split()
DefaultNames(configHosts) == SplitWs(configHosts, <<>>)

\* main.py 27: '.'.join([h, common])
Qualified(h, common) == h \o <<".">> \o common

\* main.py 19-28: ctx.obj['hosts']
ResolveHosts(given, option, configHosts, common) ==
    LET hs == IF OptionTruthy(given, option)
              THEN OptionNames(option)
              ELSE DefaultNames(configHosts)
    IN [i \in 1..Len(hs) |-> Qualified(hs[i], common)]

cli ==
    /\ phase = "ready"
    /\ output' = ResolveHosts(input.given, input.option, input.configHosts,
                              input.common)
    /\ phase' = "done"
    /\ UNCHANGED <<input, pipeVars>>

NextCli == cli

SpecCli == InitCli /\ [][NextCli]_vars

\* The names, each with the common domain appended after a dot, in order.
WithDomain(names) == [i \in 1..Len(names) |-> names[i] \o <<".">> \o input.common]

\* C9 as stated: the host list is that of the --hosts option whenever the
\* option is given, and that of the configured default otherwise, each name
\* with the common domain appended, order and count preserved.
C9_HostsFromOption ==
    phase = "done" =>
        IF input.given
        THEN output = WithDomain(input.names)
        ELSE output = WithDomain(input.defaultNames)

\* C9 as amended: the host list is that of the --hosts option when the
\* option is given with a non-empty value, and that of the configured
\* default when the option is absent or empty; each name has the common
\* domain appended, order and count preserved.
C9_HostsFromNonEmptyOption ==
    phase = "done" =>
        IF input.given /\ input.option # <<>>
        THEN output = WithDomain(input.names)
        ELSE output = WithDomain(input.defaultNames)

\* An option of three names, the second empty, was resolved while the
\* configuration lists other hosts.
C9_Witness ==
    /\ phase = "done"
    /\ input.given
    /\ Len(input.names) = 3
    /\ input.names[2] = <<>>
    /\ input.names[1] # <<>>
    /\ Len(input.defaultNames) = 2
    /\ Len(output) = 3

====
